---------------------------- MODULE Spec2Model ----------------------------
(***************************************************************************)
(* A model of the tool-orchestration loop of src/src/agent.py:             *)
(* ToolRegistry.load_tools, ReactAgent.plan_action,                        *)
(* ReactAgent._normalize_action_input, ReactAgent._invoke_tool_command,    *)
(* ReactAgent.execute_tool and ReactAgent.run.                             *)
(*                                                                         *)
(* Text.  A Python str is a sequence of one-character strings, so that     *)
(* str.strip, json.loads, json.dumps and str() are computed character by   *)
(* character.  The characters that occur are those of Alphabet below plus  *)
(* the letters of the fixed messages: the only whitespace characters are   *)
(* the space and the line feed, none is a backslash, an apostrophe or      *)
(* another control character.  An int lies within 32 bits.                 *)
(* A float is kept as its shortest decimal: the significant digits and the *)
(* place of the decimal point, which is what float() and repr() give for   *)
(* a literal of at most 15 significant digits that is zero or of a         *)
(* magnitude from 1e-307 up; a literal too large becomes inf and one too   *)
(* small becomes zero.  The configuration file holds a JSON array.         *)
(*                                                                         *)
(* The completion backend answers every call with a text.  A tool process  *)
(* that never ends leaves run waiting in its ACTING step; what             *)
(* subprocess.run does otherwise, raising included, is an input of that    *)
(* step.                                                                   *)
(*                                                                         *)
(* Values.  A Python value is a record [t, v]:                             *)
(*   t = "str"   v = the characters                                        *)
(*   t = "int"   v = the integer                                           *)
(*   t = "float" v = [kind, neg, digits, point]: kind "fin", "inf" or      *)
(*                   "nan"; a finite value is 0.digits * 10^point with the *)
(*                   sign neg, digits without leading and trailing zeros   *)
(*                   and empty for zero                                    *)
(*   t = "bool"  v = TRUE or FALSE                                         *)
(*   t = "null"  v = <<>>                      (None)                      *)
(*   t = "arr"   v = the sequence of elements  (list)                      *)
(*   t = "obj"   v = the sequence of <<key characters, value>> pairs, in   *)
(*                   insertion order, keys pairwise distinct (a dict with  *)
(*                   str keys, as json.loads makes it)                     *)
(***************************************************************************)
EXTENDS Integers, Sequences, FiniteSets, TLC

(***************************************************************************)
(* Python values                                                           *)
(***************************************************************************)
PStr(s) == [t |-> "str", v |-> s]
PInt(n) == [t |-> "int", v |-> n]
PFloat(kind, neg, digits, point) ==
    [t |-> "float", v |-> [kind |-> kind, neg |-> neg, digits |-> digits, point |-> point]]
PBool(b) == [t |-> "bool", v |-> b]
PNone == [t |-> "null", v |-> <<>>]
PList(items) == [t |-> "arr", v |-> items]
PDict(pairs) == [t |-> "obj", v |-> pairs]

IsStr(x) == x.t = "str"
IsDict(x) == x.t = "obj"
IsList(x) == x.t = "arr"
IsFloat(x) == x.t = "float"

FloatZero(neg) == PFloat("fin", neg, <<>>, 0)
FloatInf(neg) == PFloat("inf", neg, <<>>, 0)
FloatNaN == PFloat("nan", FALSE, <<>>, 0)

\* bool(x): the truth value Python gives x in "if x" / "if not x".
Truthy(x) ==
    CASE x.t = "str" -> Len(x.v) > 0
      [] x.t = "int" -> x.v # 0
      [] x.t = "float" -> ~(x.v.kind = "fin" /\ x.v.digits = <<>>)
      [] x.t = "bool" -> x.v
      [] x.t = "null" -> FALSE
      [] x.t = "arr" -> Len(x.v) > 0
      [] x.t = "obj" -> Len(x.v) > 0

\* key in d, for a dict d and a str key (characters).
HasKey(d, key) == \E i \in 1..Len(d.v) : d.v[i][1] = key

\* d[key] for a key that is present.
Lookup(d, key) == d.v[CHOOSE i \in 1..Len(d.v) : d.v[i][1] = key][2]

\* d.get(key, default)
Get(d, key, default) == IF HasKey(d, key) THEN Lookup(d, key) ELSE default

\* d[key] = value on the pair sequence of a dict: a present key keeps its
\* place and takes the new value, a new key goes last.
SetItem(pairs, key, value) ==
    IF \E i \in 1..Len(pairs) : pairs[i][1] = key
    THEN [i \in 1..Len(pairs) |->
             IF pairs[i][1] = key THEN <<key, value>> ELSE pairs[i]]
    ELSE Append(pairs, <<key, value>>)

RECURSIVE DictOfPairs(_)
\* dict(pairs): the pairs inserted left to right.
DictOfPairs(pairs) ==
    IF pairs = <<>> THEN <<>>
    ELSE SetItem(DictOfPairs(SubSeq(pairs, 1, Len(pairs) - 1)),
                 pairs[Len(pairs)][1], pairs[Len(pairs)][2])

(***************************************************************************)
(* str.strip, str.join, str(int)                                           *)
(***************************************************************************)
\* the whitespace of str.strip and of JSON: the space and the line feed
IsSpace(c) == c = " " \/ c = "\n"

RECURSIVE LStrip(_)
LStrip(s) ==
    IF s # <<>> /\ IsSpace(Head(s)) THEN LStrip(Tail(s)) ELSE s

RECURSIVE RStrip(_)
RStrip(s) ==
    IF s # <<>> /\ IsSpace(s[Len(s)])
    THEN RStrip(SubSeq(s, 1, Len(s) - 1)) ELSE s

Strip(s) == RStrip(LStrip(s))

RECURSIVE Join(_, _)
\* sep.join(parts) for a sequence of strs
Join(sep, parts) ==
    IF parts = <<>> THEN <<>>
    ELSE IF Len(parts) = 1 THEN parts[1]
    ELSE parts[1] \o sep \o Join(sep, Tail(parts))

DigitChars == <<"0", "1", "2", "3", "4", "5", "6", "7", "8", "9">>
IsDigit(c) == \E d \in 1..10 : DigitChars[d] = c
DigitValue(c) == (CHOOSE d \in 1..10 : DigitChars[d] = c) - 1

RECURSIVE NatStr(_)
NatStr(n) ==
    IF n < 10 THEN <<DigitChars[n + 1]>>
    ELSE NatStr(n \div 10) \o <<DigitChars[(n % 10) + 1]>>

\* str(n) for an int n
IntStr(n) == IF n < 0 THEN <<"-">> \o NatStr(-n) ELSE NatStr(n)

RECURSIVE Zeros(_)
\* "0" * n
Zeros(n) == IF n <= 0 THEN <<>> ELSE <<"0">> \o Zeros(n - 1)

RECURSIVE LStripZeros(_)
LStripZeros(ds) ==
    IF ds # <<>> /\ Head(ds) = "0" THEN LStripZeros(Tail(ds)) ELSE ds

RECURSIVE RStripZeros(_)
RStripZeros(ds) ==
    IF ds # <<>> /\ ds[Len(ds)] = "0"
    THEN RStripZeros(SubSeq(ds, 1, Len(ds) - 1)) ELSE ds

RECURSIVE DigitsAbove(_, _)
\* a > b for two digit sequences of the same length
DigitsAbove(a, b) ==
    IF a = <<>> THEN FALSE
    ELSE IF Head(a) # Head(b) THEN DigitValue(Head(a)) > DigitValue(Head(b))
    ELSE DigitsAbove(Tail(a), Tail(b))

\* the first 15 digits of the largest double, 1.7976931348623157e308
MaxDoubleDigits == <<"1", "7", "9", "7", "6", "9", "3", "1", "3", "4", "8", "6", "2", "3", "1">>

\* 0.digits * 10^point is beyond the largest double and becomes inf
Overflows(digits, point) ==
    \/ point > 309
    \/ /\ point = 309
       /\ DigitsAbove(digits \o Zeros(Len(MaxDoubleDigits) - Len(digits)), MaxDoubleDigits)

\* the first 15 digits of half the smallest double, 2.4703282292062327e-324
HalfMinDoubleDigits == <<"2", "4", "7", "0", "3", "2", "8", "2", "2", "9", "2", "0", "6", "2", "3">>

\* 0.digits * 10^point is nearer to zero than to the smallest double
Underflows(digits, point) ==
    \/ point < -323
    \/ /\ point = -323
       /\ ~DigitsAbove(digits \o Zeros(Len(HalfMinDoubleDigits) - Len(digits)),
                       HalfMinDoubleDigits)

\* float(text) for a literal with the digits of the integer part, those of
\* the fraction and the exponent
MakeFloat(neg, int_digits, frac_digits, exponent) ==
    LET all == int_digits \o frac_digits
        lead == Len(all) - Len(LStripZeros(all))
        digits == RStripZeros(LStripZeros(all))
        point == Len(int_digits) - lead + exponent
    IN  IF digits = <<>> THEN FloatZero(neg)
        ELSE IF Overflows(digits, point) THEN FloatInf(neg)
        ELSE IF Underflows(digits, point) THEN FloatZero(neg)
        ELSE PFloat("fin", neg, digits, point)

\* float.__repr__ of a finite float that is not zero, without the sign:
\* repr style "r" of format_float_short
FiniteRepr(digits, point) ==
    IF point > 16 \/ point <= -4
    THEN <<Head(digits)>>
         \o (IF Len(digits) > 1 THEN <<".">> \o Tail(digits) ELSE <<>>)
         \o <<"e">>
         \o (IF point - 1 < 0 THEN <<"-">> ELSE <<"+">>)
         \o (LET e == IF point - 1 < 0 THEN 1 - point ELSE point - 1
             IN  IF e < 10 THEN <<"0">> \o NatStr(e) ELSE NatStr(e))
    ELSE IF point <= 0 THEN <<"0", ".">> \o Zeros(-point) \o digits
    ELSE IF point >= Len(digits)
    THEN digits \o Zeros(point - Len(digits)) \o <<".", "0">>
    ELSE SubSeq(digits, 1, point) \o <<".">> \o SubSeq(digits, point + 1, Len(digits))

\* repr(x) for a float x
FloatRepr(f) ==
    IF f.kind = "nan" THEN <<"n", "a", "n">>
    ELSE (IF f.neg THEN <<"-">> ELSE <<>>)
         \o (IF f.kind = "inf" THEN <<"i", "n", "f">>
             ELSE IF f.digits = <<>> THEN <<"0", ".", "0">>
             ELSE FiniteRepr(f.digits, f.point))

\* hash(x) raises TypeError: a list or dict is no key of a dict or set
Unhashable(x) == IsList(x) \/ IsDict(x)

\* an int, a bool or a finite float: they are equal as keys when they are
\* the same number
IsNumber(x) == x.t = "int" \/ x.t = "bool" \/ (x.t = "float" /\ x.v.kind = "fin")

NumberOfInt(n) ==
    IF n = 0 THEN [neg |-> FALSE, digits |-> <<>>, point |-> 0]
    ELSE LET ds == NatStr(IF n < 0 THEN -n ELSE n)
         IN  [neg |-> n < 0, digits |-> RStripZeros(ds), point |-> Len(ds)]

\* the number as sign, digits and decimal point
NumberOf(x) ==
    CASE x.t = "int" -> NumberOfInt(x.v)
      [] x.t = "bool" -> NumberOfInt(IF x.v THEN 1 ELSE 0)
      [] x.t = "float" ->
            [neg |-> x.v.neg /\ x.v.digits # <<>>, digits |-> x.v.digits, point |-> x.v.point]

\* a and b are the same key of a dict: numbers by value across int, bool and
\* float, and nan the same key as nan, since every nan of the program is
\* the one object that json.loads gives for NaN
KeyEq(a, b) ==
    IF IsNumber(a) /\ IsNumber(b) THEN NumberOf(a) = NumberOf(b)
    ELSE a = b

\* d[key] = value on the pair sequence of a dict with keys of any hashable
\* type: a present key keeps its place and its key object and takes the new
\* value, a new key goes last
SetKey(pairs, key, value) ==
    IF \E i \in 1..Len(pairs) : KeyEq(pairs[i][1], key)
    THEN [i \in 1..Len(pairs) |->
             IF KeyEq(pairs[i][1], key) THEN <<pairs[i][1], value>> ELSE pairs[i]]
    ELSE Append(pairs, <<key, value>>)

\* json.encoder.floatstr
FloatJson(f) ==
    IF f.kind = "nan" THEN <<"N", "a", "N">>
    ELSE IF f.kind = "inf"
    THEN (IF f.neg THEN <<"-">> ELSE <<>>) \o <<"I", "n", "f", "i", "n", "i", "t", "y">>
    ELSE FloatRepr(f)


(***************************************************************************)
(* json.loads: the scanner of the standard library's json.decoder and      *)
(* json.scanner, on the characters of the model.  A parse step yields      *)
(* [ok, val, pos]: pos is the index after the value.                       *)
(***************************************************************************)
ParseFail == [ok |-> FALSE, val |-> PNone, pos |-> 0]
ParseOk(val, pos) == [ok |-> TRUE, val |-> val, pos |-> pos]

\* s[i:i+1], with "" past the end
CharAt(s, i) == IF i >= 1 /\ i <= Len(s) THEN s[i] ELSE ""

StartsWith(s, i, lit) ==
    /\ i + Len(lit) - 1 <= Len(s)
    /\ SubSeq(s, i, i + Len(lit) - 1) = lit

RECURSIVE SkipWs(_, _)
SkipWs(s, i) ==
    IF i <= Len(s) /\ IsSpace(s[i]) THEN SkipWs(s, i + 1) ELSE i

RECURSIVE ClosingQuote(_, _)
\* the index of the first quote at or after j; 0 when there is none or a
\* control character (the line feed) comes first
ClosingQuote(s, j) ==
    IF j > Len(s) THEN 0
    ELSE IF s[j] = "\"" THEN j
    ELSE IF s[j] = "\n" THEN 0
    ELSE ClosingQuote(s, j + 1)

\* scanstring: s[i] is the opening quote
ParseString(s, i) ==
    LET e == ClosingQuote(s, i + 1)
    IN  IF e = 0 THEN ParseFail
        ELSE ParseOk(PStr(SubSeq(s, i + 1, e - 1)), e + 1)

RECURSIVE DigitsEnd(_, _)
\* the first index at or after j that holds no digit
DigitsEnd(s, j) ==
    IF j <= Len(s) /\ IsDigit(s[j]) THEN DigitsEnd(s, j + 1) ELSE j

RECURSIVE DigitsValue(_)
DigitsValue(ds) ==
    IF ds = <<>> THEN 0
    ELSE 10 * DigitsValue(SubSeq(ds, 1, Len(ds) - 1)) + DigitValue(ds[Len(ds)])

\* NUMBER_RE = (-?(?:0|[1-9]\d*))(\.\d+)?([eE][-+]?\d+)? matched at i, group by
\* group.  The place after the sign:
IntegerStart(s, i) == IF CharAt(s, i) = "-" THEN i + 1 ELSE i

\* the end of 0|[1-9]\d* at j, or j when there is no digit
IntegerEnd(s, j) == IF CharAt(s, j) = "0" THEN j + 1 ELSE DigitsEnd(s, j)

\* the end of (\.\d+)? at e
FractionEnd(s, e) ==
    IF CharAt(s, e) = "." /\ IsDigit(CharAt(s, e + 1)) THEN DigitsEnd(s, e + 1) ELSE e

\* the place of the digits of an exponent that starts at f
ExponentDigits(s, f) ==
    IF CharAt(s, f + 1) = "+" \/ CharAt(s, f + 1) = "-" THEN f + 2 ELSE f + 1

\* the end of ([eE][-+]?\d+)? at f
ExponentEnd(s, f) ==
    IF (CharAt(s, f) = "e" \/ CharAt(s, f) = "E") /\ IsDigit(CharAt(s, ExponentDigits(s, f)))
    THEN DigitsEnd(s, ExponentDigits(s, f))
    ELSE f

\* the exponent that starts at f and ends at g, 0 when there is none
ExponentValue(s, f, g) ==
    IF g = f THEN 0
    ELSE IF CharAt(s, f + 1) = "-"
    THEN -DigitsValue(SubSeq(s, ExponentDigits(s, f), g - 1))
    ELSE DigitsValue(SubSeq(s, ExponentDigits(s, f), g - 1))

\* the number matched from i: the integer part from j to e, the fraction to
\* f, the exponent to g.  An int without fraction and exponent, a float
\* with either.
NumberValue(s, i, j, e, f, g) ==
    IF f = e /\ g = f
    THEN PInt(IF CharAt(s, i) = "-" THEN -DigitsValue(SubSeq(s, j, e - 1))
              ELSE DigitsValue(SubSeq(s, j, e - 1)))
    ELSE MakeFloat(CharAt(s, i) = "-", SubSeq(s, j, e - 1),
                   IF f = e THEN <<>> ELSE SubSeq(s, e + 1, f - 1),
                   ExponentValue(s, f, g))

NumberMatch(s, i, j, e, f) ==
    IF e = j THEN ParseFail
    ELSE ParseOk(NumberValue(s, i, j, e, f, ExponentEnd(s, f)), ExponentEnd(s, f))

ParseNumber(s, i) ==
    NumberMatch(s, i, IntegerStart(s, i), IntegerEnd(s, IntegerStart(s, i)),
                FractionEnd(s, IntegerEnd(s, IntegerStart(s, i))))

RECURSIVE ParseValue(_, _)
RECURSIVE ParseElements(_, _, _)
RECURSIVE ParseMembers(_, _, _)

\* JSONArray, from the first value at j on; acc holds the values read
ParseElements(s, j, acc) ==
    LET r == ParseValue(s, j)
        k == SkipWs(s, r.pos)
        c == CharAt(s, k)
    IN  IF ~r.ok THEN ParseFail
        ELSE IF c = "]" THEN ParseOk(PList(Append(acc, r.val)), k + 1)
        ELSE IF c = "," THEN ParseElements(s, SkipWs(s, k + 1), Append(acc, r.val))
        ELSE ParseFail

ParseArray(s, i) ==
    LET j == SkipWs(s, i + 1)
    IN  IF CharAt(s, j) = "]" THEN ParseOk(PList(<<>>), j + 1)
        ELSE ParseElements(s, j, <<>>)

\* JSONObject, from the quote at j that opens a key; acc holds the pairs read
ParseMembers(s, j, acc) ==
    LET key == ParseString(s, j)
        k == SkipWs(s, key.pos)
        r == ParseValue(s, SkipWs(s, k + 1))
        m == SkipWs(s, r.pos)
        c == CharAt(s, m)
        n == SkipWs(s, m + 1)
        acc2 == Append(acc, <<key.val.v, r.val>>)
    IN  IF ~key.ok THEN ParseFail
        ELSE IF CharAt(s, k) # ":" THEN ParseFail
        ELSE IF ~r.ok THEN ParseFail
        ELSE IF c = "}" THEN ParseOk(PDict(DictOfPairs(acc2)), m + 1)
        ELSE IF c = "," /\ CharAt(s, n) = "\"" THEN ParseMembers(s, n, acc2)
        ELSE ParseFail

ParseObject(s, i) ==
    LET j == SkipWs(s, i + 1)
    IN  IF CharAt(s, j) = "}" THEN ParseOk(PDict(<<>>), j + 1)
        ELSE IF CharAt(s, j) = "\"" THEN ParseMembers(s, j, <<>>)
        ELSE ParseFail

\* scan_once
ParseValue(s, i) ==
    LET c == CharAt(s, i)
    IN  IF c = "\"" THEN ParseString(s, i)
        ELSE IF c = "{" THEN ParseObject(s, i)
        ELSE IF c = "[" THEN ParseArray(s, i)
        ELSE IF StartsWith(s, i, <<"n", "u", "l", "l">>) THEN ParseOk(PNone, i + 4)
        ELSE IF StartsWith(s, i, <<"t", "r", "u", "e">>) THEN ParseOk(PBool(TRUE), i + 4)
        ELSE IF StartsWith(s, i, <<"f", "a", "l", "s", "e">>) THEN ParseOk(PBool(FALSE), i + 5)
        ELSE IF ParseNumber(s, i).ok THEN ParseNumber(s, i)
        ELSE IF StartsWith(s, i, <<"N", "a", "N">>) THEN ParseOk(FloatNaN, i + 3)
        ELSE IF StartsWith(s, i, <<"I", "n", "f", "i", "n", "i", "t", "y">>)
        THEN ParseOk(FloatInf(FALSE), i + 8)
        ELSE IF StartsWith(s, i, <<"-", "I", "n", "f", "i", "n", "i", "t", "y">>)
        THEN ParseOk(FloatInf(TRUE), i + 9)
        ELSE ParseFail

\* json.loads(s): [ok, val]; ok = FALSE stands for json.JSONDecodeError
JsonLoads(s) ==
    LET r == ParseValue(s, SkipWs(s, 1))
    IN  IF r.ok /\ SkipWs(s, r.pos) = Len(s) + 1
        THEN [ok |-> TRUE, val |-> r.val]
        ELSE [ok |-> FALSE, val |-> PNone]

(***************************************************************************)
(* json.dumps, str() and repr()                                            *)
(***************************************************************************)
RECURSIVE EscapeChars(_)
\* the body of a JSON string literal: a quote, a backslash and a line feed
\* are escaped
EscapeChars(s) ==
    IF s = <<>> THEN <<>>
    ELSE (IF Head(s) = "\"" \/ Head(s) = "\\" THEN <<"\\", Head(s)>>
          ELSE IF Head(s) = "\n" THEN <<"\\", "n">>
          ELSE <<Head(s)>>)
         \o EscapeChars(Tail(s))

QuoteChars(s) == <<"\"">> \o EscapeChars(s) \o <<"\"">>

RECURSIVE JsonDumps(_)
JsonDumps(x) ==
    CASE x.t = "str" -> QuoteChars(x.v)
      [] x.t = "int" -> IntStr(x.v)
      [] x.t = "float" -> FloatJson(x.v)
      [] x.t = "bool" -> IF x.v THEN <<"t", "r", "u", "e">> ELSE <<"f", "a", "l", "s", "e">>
      [] x.t = "null" -> <<"n", "u", "l", "l">>
      [] x.t = "arr" ->
            <<"[">> \o Join(<<",", " ">>, [i \in 1..Len(x.v) |-> JsonDumps(x.v[i])]) \o <<"]">>
      [] x.t = "obj" ->
            <<"{">> \o Join(<<",", " ">>,
                           [i \in 1..Len(x.v) |->
                               QuoteChars(x.v[i][1]) \o <<":", " ">> \o JsonDumps(x.v[i][2])])
                   \o <<"}">>

RECURSIVE ReprChars(_)
\* the body of repr(s) for a str without apostrophe and backslash: only a
\* line feed is escaped
ReprChars(s) ==
    IF s = <<>> THEN <<>>
    ELSE (IF Head(s) = "\n" THEN <<"\\", "n">> ELSE <<Head(s)>>)
         \o ReprChars(Tail(s))

RECURSIVE PyRepr(_)
\* repr(x)
PyRepr(x) ==
    CASE x.t = "str" -> <<"'">> \o ReprChars(x.v) \o <<"'">>
      [] x.t = "int" -> IntStr(x.v)
      [] x.t = "float" -> FloatRepr(x.v)
      [] x.t = "bool" -> IF x.v THEN <<"T", "r", "u", "e">> ELSE <<"F", "a", "l", "s", "e">>
      [] x.t = "null" -> <<"N", "o", "n", "e">>
      [] x.t = "arr" ->
            <<"[">> \o Join(<<",", " ">>, [i \in 1..Len(x.v) |-> PyRepr(x.v[i])]) \o <<"]">>
      [] x.t = "obj" ->
            <<"{">> \o Join(<<",", " ">>,
                           [i \in 1..Len(x.v) |->
                               PyRepr(PStr(x.v[i][1])) \o <<":", " ">> \o PyRepr(x.v[i][2])])
                   \o <<"}">>

\* str(x)
PyStr(x) == IF x.t = "str" THEN x.v ELSE PyRepr(x)

(***************************************************************************)
(* The keys of the configuration records and of the plan                   *)
(***************************************************************************)
K_name == <<"n", "a", "m", "e">>
K_option == <<"o", "p", "t", "i", "o", "n">>
K_description == <<"d", "e", "s", "c", "r", "i", "p", "t", "i", "o", "n">>
K_required == <<"r", "e", "q", "u", "i", "r", "e", "d">>
K_script_path == <<"s", "c", "r", "i", "p", "t", "_", "p", "a", "t", "h">>
K_arguments == <<"a", "r", "g", "u", "m", "e", "n", "t", "s">>
K_thought == <<"t", "h", "o", "u", "g", "h", "t">>
K_action == <<"a", "c", "t", "i", "o", "n">>
K_action_input == <<"a", "c", "t", "i", "o", "n", "_", "i", "n", "p", "u", "t">>
K_is_final == <<"i", "s", "_", "f", "i", "n", "a", "l">>
K_final_answer == <<"f", "i", "n", "a", "l", "_", "a", "n", "s", "w", "e", "r">>
K_observation == <<"o", "b", "s", "e", "r", "v", "a", "t", "i", "o", "n">>

(***************************************************************************)
(* ToolRegistry.load_tools                                                 *)
(*                                                                         *)
(* A ToolArgument is [name, option, description, required] and a Tool is   *)
(* [name, description, script_path, arguments], every field a Python       *)
(* value as the configuration gives it.  The registry (ToolRegistry.tools) *)
(* is the pair sequence of a dict from the tool's name, a value of any     *)
(* hashable type, to the Tool.                                             *)
(***************************************************************************)
\* the four argument.get calls, for an argument that is a dict
ToolArgument(argument) ==
    [name |-> Get(argument, K_name, PNone),
     option |-> Get(argument, K_option, PNone),
     description |-> Get(argument, K_description, PStr(<<>>)),
     required |-> Get(argument, K_required, PBool(FALSE))]

\* the comprehension over item.get("arguments", []) raises: a value that
\* cannot be iterated (TypeError), or an element without get
\* (AttributeError), which every element of a str or of a dict's keys is
ArgumentsRaise(item) ==
    LET arguments == Get(item, K_arguments, PList(<<>>))
    IN  CASE arguments.t = "arr" ->
                \E i \in 1..Len(arguments.v) : ~IsDict(arguments.v[i])
          [] arguments.t = "obj" -> arguments.v # <<>>
          [] arguments.t = "str" -> arguments.v # <<>>
          [] OTHER -> TRUE

\* item.get("arguments", []) turned into ToolArguments
ToolArguments(item) ==
    LET arguments == Get(item, K_arguments, PList(<<>>))
    IN  IF IsList(arguments)
        THEN [i \in 1..Len(arguments.v) |-> ToolArgument(arguments.v[i])]
        ELSE <<>>

Tool(item) ==
    [name |-> Lookup(item, K_name),
     description |-> Lookup(item, K_description),
     script_path |-> Lookup(item, K_script_path),
     arguments |-> ToolArguments(item)]

\* item["name"], item["description"] and item["script_path"] raise KeyError
\* on a record without the key
HasRequiredKeys(item) ==
    HasKey(item, K_name) /\ HasKey(item, K_description) /\ HasKey(item, K_script_path)

\* one turn of the loop of load_tools raises: item.get on an item that is
\* no dict (AttributeError), the comprehension of the arguments, a key that
\* is not there (KeyError), or a name that cannot be a key (TypeError)
ItemRaises(item) ==
    \/ ~IsDict(item)
    \/ ArgumentsRaise(item)
    \/ ~HasRequiredKeys(item)
    \/ Unhashable(Lookup(item, K_name))

\* self.tools[tool.name] = tool
StoreTool(tools, tool) == SetKey(tools, tool.name, tool)

RECURSIVE load_tools_first_wins(_, _)
\* a variant of load_tools: a name that is already registered is kept
load_tools_first_wins(tools, data) ==
    IF data = <<>> THEN [tools |-> tools, raised |-> FALSE]
    ELSE IF ItemRaises(Head(data)) THEN [tools |-> tools, raised |-> TRUE]
    ELSE load_tools_first_wins(
             IF \E i \in 1..Len(tools) : KeyEq(tools[i][1], Tool(Head(data)).name)
             THEN tools ELSE StoreTool(tools, Tool(Head(data))),
             Tail(data))

RECURSIVE load_tools(_, _)
\* The loop over the items of data (the list json.load gives), started on
\* the registry tools.  [tools, raised]: an item that raises leaves the
\* items before it stored.
load_tools(tools, data) ==
    IF data = <<>> THEN [tools |-> tools, raised |-> FALSE]
    ELSE IF ItemRaises(Head(data)) THEN [tools |-> tools, raised |-> TRUE]
    ELSE load_tools(StoreTool(tools, Tool(Head(data))), Tail(data))

\* self.tools.get(tool_name) finds a Tool, for a tool_name that is hashable
IsRegistered(tools, tool_name) ==
    \E i \in 1..Len(tools) : KeyEq(tools[i][1], tool_name)

RegisteredTool(tools, tool_name) ==
    tools[CHOOSE i \in 1..Len(tools) : KeyEq(tools[i][1], tool_name)][2]

(***************************************************************************)
(* ReactAgent._normalize_action_input                                      *)
(***************************************************************************)
\* a variant of normalize_action_input: a blank string stays a string
normalize_action_input_blank_as_text(action_input) ==
    IF IsStr(action_input)
    THEN LET trimmed == Strip(action_input.v)
             parsed == JsonLoads(trimmed)
         IN  IF trimmed = <<>> THEN PStr(<<>>)
             ELSE IF ~parsed.ok THEN PStr(trimmed)
             ELSE parsed.val
    ELSE action_input

\* a variant of normalize_action_input: every empty input becomes {}
normalize_action_input_empty_first(action_input) ==
    IF ~Truthy(action_input) THEN PDict(<<>>)
    ELSE IF IsStr(action_input)
    THEN LET trimmed == Strip(action_input.v)
             parsed == JsonLoads(trimmed)
         IN  IF trimmed = <<>> THEN PDict(<<>>)
             ELSE IF ~parsed.ok THEN PStr(trimmed)
             ELSE parsed.val
    ELSE action_input

normalize_action_input(action_input) ==
    IF IsStr(action_input)
    THEN LET trimmed == Strip(action_input.v)
             parsed == JsonLoads(trimmed)
         IN  IF trimmed = <<>> THEN PDict(<<>>)
             ELSE IF ~parsed.ok THEN PStr(trimmed)
             ELSE parsed.val
    ELSE action_input

(***************************************************************************)
(* ReactAgent._invoke_tool_command                                         *)
(***************************************************************************)
MissingPrefix == <<"M", "i", "s", "s", "i", "n", "g", " ", "r", "e", "q", "u", "i", "r", "e", "d", " ", "a", "r", "g", "u", "m", "e", "n", "t", "s", ":", " ">>
UnknownPrefix == <<"U", "n", "k", "n", "o", "w", "n", " ", "t", "o", "o", "l", ":", " ">>
PythonProgram == <<"p", "y", "t", "h", "o", "n">>

\* argument.name in normalized_input, for a dict normalized_input (its keys
\* are strs) and a name that is hashable
NameIn(argument, normalized_input) ==
    IsStr(argument.name) /\ HasKey(normalized_input, argument.name.v)

IsMissing(argument, normalized_input) ==
    Truthy(argument.required) /\ ~NameIn(argument, normalized_input)

RECURSIVE MissingOf(_, _)
\* [argument.name for argument in arguments if IsMissing(argument, ...)]
MissingOf(arguments, normalized_input) ==
    IF arguments = <<>> THEN <<>>
    ELSE (IF IsMissing(Head(arguments), normalized_input)
          THEN <<Head(arguments).name>> ELSE <<>>)
         \o MissingOf(Tail(arguments), normalized_input)

RECURSIVE AbsentOf(_, _)
AbsentOf(arguments, normalized_input) ==
    IF arguments = <<>> THEN <<>>
    ELSE (IF ~NameIn(Head(arguments), normalized_input)
          THEN <<Head(arguments).name>> ELSE <<>>)
         \o AbsentOf(Tail(arguments), normalized_input)

\* a variant of missing_arguments: the required flag is not looked at
missing_arguments_any_absent(tool, normalized_input) ==
    AbsentOf(tool.arguments, normalized_input)

\* missing_arguments: the names of the required arguments that are not keys
\* of the dict, in the order of tool.arguments
missing_arguments(tool, normalized_input) ==
    MissingOf(tool.arguments, normalized_input)

\* the comprehension of missing_arguments raises TypeError: the name of a
\* required argument is unhashable
MissingRaises(tool, normalized_input) ==
    \E i \in 1..Len(tool.arguments) :
        Truthy(tool.arguments[i].required) /\ Unhashable(tool.arguments[i].name)

\* the set recognized_arguments raises TypeError: a name is unhashable
RecognizedRaises(tool) ==
    \E i \in 1..Len(tool.arguments) : Unhashable(tool.arguments[i].name)

\* command.extend(str(item) for item in value) / command.append(str(value)):
\* the elements appended to the list command
ValueTokens(value) ==
    IF IsList(value) THEN [i \in 1..Len(value.v) |-> PStr(PyStr(value.v[i]))]
    ELSE <<PStr(PyStr(value))>>

RECURSIVE SchemaTokens(_, _)
\* the first loop: the arguments of the schema that are keys of the dict
SchemaTokens(arguments, normalized_input) ==
    IF arguments = <<>> THEN <<>>
    ELSE LET argument == Head(arguments)
         IN  (IF ~NameIn(argument, normalized_input) THEN <<>>
              ELSE (IF Truthy(argument.option) THEN <<argument.option>> ELSE <<>>)
                   \o ValueTokens(Lookup(normalized_input, argument.name.v)))
             \o SchemaTokens(Tail(arguments), normalized_input)

RECURSIVE ExtraTokens(_, _)
\* the second loop: the items of the dict whose key is no argument's name
ExtraTokens(arguments, items) ==
    IF items = <<>> THEN <<>>
    ELSE (IF \E i \in 1..Len(arguments) :
                 IsStr(arguments[i].name) /\ arguments[i].name.v = Head(items)[1]
          THEN <<>>
          ELSE ValueTokens(Head(items)[2]))
         \o ExtraTokens(arguments, Tail(items))

\* a variant of BuildCommand: the keys outside the schema come first
BuildCommand_extras_first(tool, normalized_input) ==
    <<PStr(PythonProgram), tool.script_path>>
    \o (IF IsDict(normalized_input)
        THEN ExtraTokens(tool.arguments, normalized_input.v)
             \o SchemaTokens(tool.arguments, normalized_input)
        ELSE IF IsList(normalized_input) THEN ValueTokens(normalized_input)
        ELSE IF Truthy(normalized_input) THEN <<PStr(PyStr(normalized_input))>>
        ELSE <<>>)

\* the list command built for a tool and a normalized input, without the
\* check of the required arguments: its elements are the values the code
\* puts there, script_path and the options as they are, the rest strs
BuildCommand(tool, normalized_input) ==
    <<PStr(PythonProgram), tool.script_path>>
    \o (IF IsDict(normalized_input)
        THEN SchemaTokens(tool.arguments, normalized_input)
             \o ExtraTokens(tool.arguments, normalized_input.v)
        ELSE IF IsList(normalized_input) THEN ValueTokens(normalized_input)
        ELSE IF Truthy(normalized_input) THEN <<PStr(PyStr(normalized_input))>>
        ELSE <<>>)

\* a variant of CompletedResult: the output is preferred when there is any
CompletedResult_prefers_stdout(completed) ==
    IF Strip(completed.stdout) # <<>> THEN Strip(completed.stdout)
    ELSE Strip(completed.stderr)

\* what the finished process leaves: completed = [error, returncode,
\* stdout, stderr], for a subprocess.run that returned (error "none")
CompletedResult(completed) ==
    IF completed.returncode # 0 THEN Strip(completed.stderr)
    ELSE Strip(completed.stdout)

\* _invoke_tool_command raised
InvokeRaised == [raised |-> TRUE, started |-> FALSE, command |-> <<>>, result |-> <<>>]

\* the return for missing arguments; ", ".join raises on a name that is no
\* str
MissingResult(missing) ==
    IF \E i \in 1..Len(missing) : ~IsStr(missing[i])
    THEN InvokeRaised
    ELSE [raised |-> FALSE, started |-> FALSE, command |-> <<>>,
          result |-> MissingPrefix
                     \o Join(<<",", " ">>, [i \in 1..Len(missing) |-> missing[i].v])]

\* subprocess.run(command, capture_output=True, text=True) and the return
\* made from what the process left.  completed.error says how the call
\* ends for a command of strs: "none", it returns the CompletedProcess;
\* "OSError", the program cannot be started (FileNotFoundError when there is
\* no python on PATH); "UnicodeDecodeError", the process ran and what it
\* wrote cannot be decoded as text.  An element of command that is no str
\* raises TypeError before any process.  No exception is caught on the way
\* out of _invoke_tool_command, execute_tool and run.
RunCommand(command, completed) ==
    IF \E i \in 1..Len(command) : ~IsStr(command[i])
    THEN InvokeRaised
    ELSE IF completed.error = "OSError"
    THEN InvokeRaised
    ELSE IF completed.error = "UnicodeDecodeError"
    THEN [raised |-> TRUE, started |-> TRUE,
          command |-> [i \in 1..Len(command) |-> command[i].v],
          result |-> <<>>]
    ELSE [raised |-> FALSE, started |-> TRUE,
          command |-> [i \in 1..Len(command) |-> command[i].v],
          result |-> CompletedResult(completed)]

\* [raised, started, command, result]: started says that subprocess.run
\* started the process of command.  TypeError is raised by the hash of an
\* unhashable argument name, by ", ".join on a missing name that is no str,
\* and by subprocess.run on a command with an element that is no str;
\* subprocess.run also raises as RunCommand says.
invoke_tool_command(tool, normalized_input, completed) ==
    IF IsDict(normalized_input) /\ MissingRaises(tool, normalized_input)
    THEN InvokeRaised
    ELSE IF IsDict(normalized_input) /\ missing_arguments(tool, normalized_input) # <<>>
    THEN MissingResult(missing_arguments(tool, normalized_input))
    ELSE IF IsDict(normalized_input) /\ RecognizedRaises(tool)
    THEN InvokeRaised
    ELSE RunCommand(BuildCommand(tool, normalized_input), completed)

(***************************************************************************)
(* ReactAgent.execute_tool                                                 *)
(***************************************************************************)
\* what execute_tool did when it returns what _invoke_tool_command gave
AfterInvoke(r) ==
    [raised |-> r.raised,
     calls |-> <<"_normalize_action_input", "_invoke_tool_command">>,
     started |-> r.started, command |-> r.command, result |-> r.result]

\* a variant of execute_tool: the input is normalized before the lookup
execute_tool_normalize_first(tools, tool_name, action_input, completed) ==
    LET normalized_input == normalize_action_input(action_input)
    IN  IF Unhashable(tool_name)
        THEN [raised |-> TRUE, calls |-> <<"_normalize_action_input">>,
              started |-> FALSE, command |-> <<>>, result |-> <<>>]
        ELSE IF ~IsRegistered(tools, tool_name)
        THEN [raised |-> FALSE, calls |-> <<"_normalize_action_input">>,
              started |-> FALSE, command |-> <<>>,
              result |-> UnknownPrefix \o PyStr(tool_name)]
        ELSE AfterInvoke(invoke_tool_command(RegisteredTool(tools, tool_name),
                                          normalized_input, completed))

\* [raised, calls, started, command, result]: calls lists the methods
\* execute_tool called, in order.  A list or dict as tool_name is
\* unhashable: dict.get raises TypeError.
execute_tool(tools, tool_name, action_input, completed) ==
    IF Unhashable(tool_name)
    THEN [raised |-> TRUE, calls |-> <<>>, started |-> FALSE, command |-> <<>>,
          result |-> <<>>]
    ELSE IF ~IsRegistered(tools, tool_name)
    THEN [raised |-> FALSE, calls |-> <<>>, started |-> FALSE, command |-> <<>>,
          result |-> UnknownPrefix \o PyStr(tool_name)]
    ELSE AfterInvoke(invoke_tool_command(RegisteredTool(tools, tool_name),
                                      normalize_action_input(action_input), completed))

(***************************************************************************)
(* ReactAgent.plan_action: the plan made from the reply's text             *)
(***************************************************************************)
plan_action(content) ==
    LET parsed == JsonLoads(content)
    IN  IF parsed.ok THEN parsed.val
        ELSE PDict(<< <<K_thought, PStr(content)>>,
                      <<K_action, PStr(<<>>)>>,
                      <<K_action_input, PStr(<<>>)>>,
                      <<K_is_final, PBool(TRUE)>>,
                      <<K_final_answer, PStr(content)>> >>)

(***************************************************************************)
(* ReactAgent.run, one step per call of the planner and per tool execution *)
(***************************************************************************)
\* the fixed message of run (agent.py 367-369), a Japanese sentence that
\* says the maximum number of attempts was reached; one symbol stands for it
FinalMessage == <<"(max turns reached)">>

\* a variant of IsFinal: a plan is final only when it names no action
IsFinal_unless_action(plan) ==
    Truthy(Get(plan, K_is_final, PNone)) /\ ~Truthy(Get(plan, K_action, PStr(<<>>)))

\* plan.get("is_final")
IsFinal(plan) == Truthy(Get(plan, K_is_final, PNone))

\* a variant of TurnsLeft: one turn too many
TurnsLeft_inclusive(step, max_turns) == step <= max_turns

\* for step in range(self.max_turns): another turn is left
TurnsLeft(step, max_turns) == step < max_turns

\* a variant of HistoryEntry: the entry records the input as normalized
HistoryEntry_normalized_input(plan, observation) ==
    JsonDumps(PDict(<< <<K_thought, Get(plan, K_thought, PNone)>>,
                       <<K_action, Get(plan, K_action, PStr(<<>>))>>,
                       <<K_action_input,
                         normalize_action_input(Get(plan, K_action_input, PStr(<<>>)))>>,
                       <<K_observation, observation>> >>))

\* the entry run appends to history
HistoryEntry(plan, observation) ==
    JsonDumps(PDict(<< <<K_thought, Get(plan, K_thought, PNone)>>,
                       <<K_action, Get(plan, K_action, PStr(<<>>))>>,
                       <<K_action_input, Get(plan, K_action_input, PStr(<<>>))>>,
                       <<K_observation, observation>> >>))

\* execute_tool when nothing was executed yet
NoExecution ==
    [raised |-> FALSE, calls |-> <<>>, started |-> FALSE, command |-> <<>>,
     result |-> <<>>]

(***************************************************************************)
(* Bounds and the inputs of the loop                                       *)
(***************************************************************************)
MaxTurns == 2
MaxRuns == 2

S_math == <<"m", "a", "t", "h">>
S_mail == <<"m", "a", "i", "l">>
S_cat == <<"c", "a", "t">>
S_nope == <<"d", "o", "e", "s", "_", "n", "o", "t", "_", "e", "x", "i", "s", "t">>
S_to == <<"t", "o">>
S_cc == <<"c", "c">>
S_path == <<"p", "a", "t", "h">>
S_verbose == <<"v", "e", "r", "b", "o", "s", "e">>

\* a record of the configuration source
ToolRecord(name, script_path, arguments) ==
    PDict(<< <<K_name, PStr(name)>>,
             <<K_description, PStr(<<"d">>)>>,
             <<K_script_path, PStr(script_path)>>,
             <<K_arguments, PList(arguments)>> >>)

ArgumentRecord(name, option, required) ==
    PDict(<< <<K_name, PStr(name)>>,
             <<K_option, option>>,
             <<K_description, PStr(<<"d">>)>>,
             <<K_required, PBool(required)>> >>)

\* tools/tools.json as the loop sees it: a tool without arguments, the
\* tool of the specification's example, and a tool with two required
\* arguments, one of them positional, and an optional argument whose option
\* is the empty string
MathRecord ==
    PDict(<< <<K_name, PStr(S_math)>>,
             <<K_description, PStr(<<"d">>)>>,
             <<K_script_path, PStr(<<"m", ".", "p", "y">>)>> >>)

CatRecord ==
    ToolRecord(S_cat, <<"c", ".", "p", "y">>,
               << ArgumentRecord(S_path, PStr(<<"-", "p">>), TRUE),
                  ArgumentRecord(S_verbose, PStr(<<"-", "v">>), FALSE) >>)

MailRecord ==
    ToolRecord(S_mail, <<"s", ".", "p", "y">>,
               << ArgumentRecord(S_to, PStr(<<"-", "t">>), TRUE),
                  ArgumentRecord(S_cc, PNone, TRUE),
                  ArgumentRecord(S_verbose, PStr(<<>>), FALSE) >>)

SampleConfig == <<MathRecord, CatRecord, MailRecord>>

\* the same catalog with an earlier definition of mail that a later one
\* replaces
ShadowedConfig ==
    <<ToolRecord(S_mail, <<"o", "l", "d", ".", "p", "y">>, <<>>), MathRecord, CatRecord, MailRecord>>

RunConfigs == {SampleConfig, ShadowedConfig}

\* the text of a well-formed reply
PlanText(action, action_input, is_final, final_answer) ==
    JsonDumps(PDict(<< <<K_thought, PStr(<<"t">>)>>,
                       <<K_action, action>>,
                       <<K_action_input, action_input>>,
                       <<K_is_final, is_final>>,
                       <<K_final_answer, final_answer>> >>))

\* the reply texts the completion backend may give
Replies ==
    { \* math on a free-form string
      PlanText(PStr(S_math), PStr(<<"2", "+", "3">>), PBool(FALSE), PStr(<<>>)),
      \* mail without its required arguments
      PlanText(PStr(S_mail), PDict(<< <<S_verbose, PStr(<<"1">>)>> >>), PBool(FALSE), PStr(<<>>)),
      \* mail with a list, an unknown key, and the keys out of schema order
      PlanText(PStr(S_mail),
               PDict(<< <<S_path, PStr(<<"k">>)>>, <<S_cc, PStr(<<"x">>)>>,
                        <<S_to, PList(<<PStr(<<"a">>), PStr(<<"b">>)>>)>> >>),
               PBool(FALSE), PStr(<<>>)),
      \* mail on a blank string
      PlanText(PStr(S_mail), PStr(<<" ">>), PBool(FALSE), PStr(<<>>)),
      \* a tool that is not registered
      PlanText(PStr(S_nope), PStr(<<"2", "+", "3">>), PBool(FALSE), PStr(<<>>)),
      \* tools that are not registered, on a dict and on a list
      PlanText(PStr(<<>>), PDict(<< <<S_to, PStr(<<"a">>)>> >>), PBool(FALSE), PStr(<<>>)),
      PlanText(PStr(<<"M", "a", "t", "h">>), PList(<<PStr(<<"a">>)>>), PBool(FALSE), PStr(<<>>)),
      \* a final plan that still names an action
      PlanText(PStr(S_math), PStr(<<"2", "+", "3">>), PBool(TRUE), PStr(<<"5">>)),
      \* an action that is a list
      PlanText(PList(<<PStr(S_math)>>), PStr(<<>>), PBool(FALSE), PStr(<<>>)),
      \* text that is no JSON
      <<"n", "o", "t", " ", "j", "s", "o", "n", " ", "a", "t", " ", "a", "l", "l">>,
      \* JSON that is no object
      <<"4", "2">>,
      <<"N", "a", "N">>,
      \* an object without the keys of a plan
      <<"{", "}">> }

\* subprocess.run returned: the exit status and the decoded output
Exited(returncode, stdout, stderr) ==
    [error |-> "none", returncode |-> returncode, stdout |-> stdout, stderr |-> stderr]

\* subprocess.run raised: the program could not be started (OSError), or
\* the process ran and its output is no text (UnicodeDecodeError)
Failed(error) ==
    [error |-> error, returncode |-> 0, stdout |-> <<>>, stderr |-> <<>>]

\* how subprocess.run may end
Completions ==
    { Exited(0, <<"5", "\n">>, <<>>),
      Exited(0, <<>>, <<"w">>),
      Exited(1, <<"p">>, <<" ", "e", " ", "f", "\n">>),
      Failed("OSError"),
      Failed("UnicodeDecodeError") }

(***************************************************************************)
(* State                                                                   *)
(***************************************************************************)
VARIABLES
    config,       \* the records of the configuration source
    registry,     \* ToolRegistry.tools, shared with ReactAgent.tools
    max_turns,    \* ReactAgent.max_turns
    pc,           \* "new", "failed", "idle", "planning", "acting", "done", "raised"
    step,         \* run: the loop variable
    history,      \* run: history
    observation,  \* run: observation
    content,      \* plan_action: the text of the last reply
    plan,         \* run: plan
    result,       \* what run returned
    seen,         \* the history and observation the last planner call got
    last,         \* what the last execute_tool of this run did
    plans,        \* plan_action calls of this run
    execs,        \* execute_tool calls of this run
    spawned,      \* processes started in this run
    runs,         \* run calls so far
    h_pc,         \* function harness: "off", "input", or the function applied
    h_in,         \* function harness: the input
    h_out         \* function harness: the output

vars == <<config, registry, max_turns, pc, step, history, observation, content,
          plan, result, seen, last, plans, execs, spawned, runs, h_pc, h_in, h_out>>

runVars == <<step, history, observation, content, plan, result, seen, last,
             plans, execs, spawned>>
harnessVars == <<h_pc, h_in, h_out>>

InitRunVars ==
    /\ step = 0
    /\ history = <<>>
    /\ observation = PNone
    /\ content = <<>>
    /\ plan = PNone
    /\ result = PNone
    /\ seen = [history |-> <<>>, observation |-> PNone]
    /\ last = NoExecution
    /\ plans = 0
    /\ execs = 0
    /\ spawned = 0

HarnessOff == h_pc = "off" /\ h_in = <<>> /\ h_out = <<>>

\* the default of max_turns in ReactAgent.__init__
DefaultMaxTurns == 5

\* an agent constructed on the configuration cfg, before any run
IdleAgent(cfg) ==
    /\ config = cfg
    /\ registry = load_tools(<<>>, cfg).tools
    /\ max_turns = DefaultMaxTurns
    /\ pc = "idle"
    /\ runs = 0
    /\ InitRunVars

agentVars == <<config, registry, max_turns, pc, runs, runVars>>

\* after ToolRegistry.__init__: an empty registry
Init ==
    /\ config \in RunConfigs
    /\ registry = <<>>
    /\ max_turns \in 0..MaxTurns
    /\ pc = "new"
    /\ runs = 0
    /\ InitRunVars
    /\ HarnessOff

\* ReactAgent.__init__: the tools are loaded
Construct ==
    /\ pc = "new"
    /\ LET r == load_tools(registry, config)
       IN  /\ registry' = r.tools
           /\ pc' = IF r.raised THEN "failed" ELSE "idle"
    /\ UNCHANGED <<config, max_turns, runs, runVars, harnessVars>>

\* run is called, for the first time or after an earlier run returned or
\* raised: its locals start afresh, history and observation empty
Start ==
    /\ pc \in {"idle", "done", "raised"}
    /\ runs < MaxRuns
    /\ runs' = runs + 1
    /\ pc' = "planning"
    /\ step' = 0
    /\ history' = <<>>
    /\ observation' = PNone
    /\ content' = <<>>
    /\ plan' = PNone
    /\ result' = PNone
    /\ seen' = [history |-> <<>>, observation |-> PNone]
    /\ last' = NoExecution
    /\ plans' = 0
    /\ execs' = 0
    /\ spawned' = 0
    /\ UNCHANGED <<config, registry, max_turns, harnessVars>>

\* one turn, up to the planner's answer: plan_action, then the is_final
\* test.  plan.get raises AttributeError when the plan is no dict.
Plan(reply) ==
    /\ pc = "planning"
    /\ TurnsLeft(step, max_turns)
    /\ content' = reply
    /\ seen' = [history |-> history, observation |-> observation]
    /\ plans' = plans + 1
    /\ plan' = plan_action(reply)
    /\ IF ~IsDict(plan')
       THEN pc' = "raised" /\ result' = result
       ELSE IF IsFinal(plan')
       THEN pc' = "done" /\ result' = Get(plan', K_final_answer, PStr(<<>>))
       ELSE pc' = "acting" /\ result' = result
    /\ UNCHANGED <<config, registry, max_turns, step, history, observation, last,
                   execs, spawned, runs, harnessVars>>

\* the rest of the turn: execute_tool, then the history entry
Act(completed) ==
    /\ pc = "acting"
    /\ last' = execute_tool(registry, Get(plan, K_action, PStr(<<>>)),
                            Get(plan, K_action_input, PStr(<<>>)), completed)
    /\ execs' = execs + 1
    /\ spawned' = IF last'.started THEN spawned + 1 ELSE spawned
    /\ IF last'.raised
       THEN /\ pc' = "raised"
            /\ UNCHANGED <<observation, history, step>>
       ELSE /\ pc' = "planning"
            /\ observation' = PStr(last'.result)
            /\ history' = Append(history, HistoryEntry(plan, observation'))
            /\ step' = step + 1
    /\ UNCHANGED <<config, registry, max_turns, content, plan, result, seen, plans,
                   runs, harnessVars>>

\* the loop ends without a final plan: the fixed message is returned
Exhaust ==
    /\ pc = "planning"
    /\ ~TurnsLeft(step, max_turns)
    /\ pc' = "done"
    /\ result' = PStr(FinalMessage)
    /\ UNCHANGED <<config, registry, max_turns, step, history, observation, content,
                   plan, seen, last, plans, execs, spawned, runs, harnessVars>>

Next ==
    \/ Construct
    \/ Start
    \/ \E reply \in Replies : Plan(reply)
    \/ \E completed \in Completions : Act(completed)
    \/ Exhaust

Spec == Init /\ [][Next]_vars

(***************************************************************************)
(* execute_tool and _invoke_tool_command applied to drawn inputs           *)
(***************************************************************************)
MaxKeys == 3

PayloadKeys == {S_path, S_verbose, S_to, S_cc}

PayloadValues ==
    { PStr(<<"1">>), PList(<<PStr(<<"a">>), PStr(<<"b">>)>>), PList(<<>>) }

\* the sequences of at most n pairwise distinct elements of S
Arrangements(S, n) ==
    { q \in UNION {[1..k -> S] : k \in 0..n} :
        \A i, j \in 1..Len(q) : i # j => q[i] # q[j] }

\* the dicts of at most MaxKeys keys
Payloads ==
    UNION { { PDict([i \in 1..Len(ks) |-> <<ks[i], vs[i]>>]) :
                vs \in [1..Len(ks) -> PayloadValues] } :
            ks \in Arrangements(PayloadKeys, MaxKeys) }

\* action_input texts
RawTexts ==
    { <<>>, <<" ">>, <<" ", "\n">>,
      <<"2", "+", "3">>, <<" ", "p", "l", "a", "i", "n", " ", "t", "e", "x", "t", " ">>,
      <<"0">>, <<"7">>, <<"-", "1">>,
      <<"0", ".", "0">>, <<"1", "e", "1">>, <<"1", ".", "5", "0">>,
      <<"N", "a", "N">>, <<"I", "n", "f", "i", "n", "i", "t", "y">>,
      <<"-", "I", "n", "f", "i", "n", "i", "t", "y">>,
      <<"f", "a", "l", "s", "e">>, <<"t", "r", "u", "e">>, <<"n", "u", "l", "l">>,
      <<"\"", "q", "\"">>, <<"\"", "\"">>, <<"\"", " ", "\"">>, <<"\"", "{", "}", "\"">>,
      <<"[", "]">>, <<"[", "\"", "a", "\"", ",", " ", "\"", "b", "\"", "]">>, <<"{", "}">>,
      <<"{", "\"", "v", "e", "r", "b", "o", "s", "e", "\"", ":", " ", "\"", "1", "\"", "}">>,
      <<" ", "{", "\"", "v", "e", "r", "b", "o", "s", "e", "\"", ":", "\"", "1", "\"", ",", "\"", "p", "a", "t", "h", "\"", ":", "\"", "/", "t", "m", "p", "/", "f", "\"", "}", "\n">>,
      <<"{", "\"", "t", "o", "\"", ":", " ", "\"", "a", "\"", ",", " ", "\"", "c", "c", "\"", ":", " ", "[", "\"", "b", "\"", ",", " ", "1", "]", "}">>,
      <<"{", "\"", "t", "o", "\"", ":", " ", "\"", "a", "\"", ",", " ", "\"", "t", "o", "\"", ":", " ", "\"", "b", "\"">> }

OtherInputs ==
    { PList(<<>>), PList(<<PStr(<<"a">>), PInt(1)>>), PInt(0), PInt(5), PNone,
      PBool(TRUE), PStr(<<" ", "x", " ">>) }

ToolInputs == Payloads \cup {PStr(s) : s \in RawTexts} \cup OtherInputs

ToolNames == { PStr(S_math), PStr(S_cat), PStr(S_mail), PStr(S_nope), PStr(<<>>) }

ToolCompletions ==
    Completions \cup
    { Exited(-9, <<"p">>, <<>>),
      Exited(0, <<" ", "a", " ", "b", " ">>, <<"e">>) }

InitTool ==
    /\ IdleAgent(SampleConfig)
    /\ h_pc = "input"
    /\ h_in \in [name : ToolNames, input : ToolInputs, completed : ToolCompletions]
    /\ h_out = <<>>

\* execute_tool(name, input)
ExecuteStep ==
    /\ h_pc = "input"
    /\ h_pc' = "execute_tool"
    /\ h_out' = execute_tool(registry, h_in.name, h_in.input, h_in.completed)
    /\ UNCHANGED <<h_in, agentVars>>

\* _invoke_tool_command(tool, input) on a registered tool, as execute_tool
\* and the registered executors call it
InvokeStep ==
    /\ h_pc = "input"
    /\ IsRegistered(registry, h_in.name)
    /\ h_pc' = "_invoke_tool_command"
    /\ h_out' = invoke_tool_command(RegisteredTool(registry, h_in.name), h_in.input,
                                    h_in.completed)
    /\ UNCHANGED <<h_in, agentVars>>

NextTool == ExecuteStep \/ InvokeStep

SpecTool == InitTool /\ [][NextTool]_vars

(***************************************************************************)
(* Properties of execute_tool and _invoke_tool_command, checked under      *)
(* SpecTool                                                                *)
(***************************************************************************)
Invoked == h_pc = "_invoke_tool_command"
Executed == h_pc = "execute_tool"

\* the tool the harness input names
HTool == RegisteredTool(registry, h_in.name)

\* the program and its script: the tokens every command starts with
ProgramTokens(tool) == <<PythonProgram, tool.script_path.v>>

KeysOf(d) == {d.v[i][1] : i \in 1..Len(d.v)}

RECURSIVE AscendingSeq(_)
\* the numbers of S in ascending order
AscendingSeq(S) ==
    IF S = {} THEN <<>>
    ELSE LET least == CHOOSE x \in S : \A y \in S : x <= y
         IN  <<least>> \o AscendingSeq(S \ {least})

RECURSIVE Flatten(_)
Flatten(seqs) ==
    IF seqs = <<>> THEN <<>> ELSE Head(seqs) \o Flatten(Tail(seqs))

\* the places in the schema of the required arguments d has no key for
RequiredAbsent(tool, d) ==
    { i \in 1..Len(tool.arguments) :
        /\ tool.arguments[i].required = PBool(TRUE)
        /\ tool.arguments[i].name.v \notin KeysOf(d) }

\* the message for the arguments at the places of S
MissingMessage(tool, S) ==
    LET places == AscendingSeq(S)
    IN  MissingPrefix
        \o Join(<<",", " ">>, [k \in 1..Len(places) |-> tool.arguments[places[k]].name.v])

\* C3: on a dict that lacks a required argument, _invoke_tool_command
\* returns "Missing required arguments: " and the missing required names in
\* schema order joined by ", ", and starts no process, whatever
\* subprocess.run would do; when no required argument is missing the
\* process is started, unless the program itself cannot be started, which
\* subprocess.run answers with OSError.
C3_MissingRequired ==
    (Invoked /\ IsDict(h_in.input)) =>
        IF RequiredAbsent(HTool, h_in.input) # {}
        THEN /\ ~h_out.raised
             /\ h_out.result = MissingMessage(HTool, RequiredAbsent(HTool, h_in.input))
             /\ ~h_out.started
             /\ h_out.command = <<>>
        ELSE /\ h_out.started = (h_in.completed.error # "OSError")
             /\ h_out.started => Len(h_out.command) >= 2
             /\ h_out.raised = (h_in.completed.error # "none")

C3_Witness ==
    /\ Invoked
    /\ h_in.name = PStr(S_mail)
    /\ h_in.input = PDict(<< <<S_verbose, PStr(<<"1">>)>> >>)
    /\ ~h_out.started
    /\ h_out.result = <<"M", "i", "s", "s", "i", "n", "g", " ", "r", "e", "q", "u", "i", "r", "e", "d", " ", "a", "r", "g", "u", "m", "e", "n", "t", "s", ":", " ", "t", "o", ",", " ", "c", "c">>

\* the tokens one value gives: one per element of a list, one for a scalar
Expansion(value) ==
    IF value.t = "arr" THEN [k \in 1..Len(value.v) |-> PyStr(value.v[k])]
    ELSE <<PyStr(value)>>

\* the option token of an argument that has one
OptionToken(argument) ==
    IF argument.option.t = "str" /\ argument.option.v # <<>>
    THEN <<argument.option.v>> ELSE <<>>

\* C5: for a dict with no required argument missing, the command is the
\* program (python and the tool's script), then for each schema argument in
\* schema order that is a key of the dict its option token, if it has one,
\* and its value tokens, then the value tokens of the keys outside the
\* schema in the dict's key order, and nothing else.
C5_CommandOrder ==
    (Invoked /\ IsDict(h_in.input) /\ h_out.started) =>
        LET arguments == HTool.arguments
            d == h_in.input
            names == {arguments[i].name.v : i \in 1..Len(arguments)}
            schemaPart ==
                [i \in 1..Len(arguments) |->
                    IF arguments[i].name.v \in KeysOf(d)
                    THEN OptionToken(arguments[i])
                         \o Expansion(Lookup(d, arguments[i].name.v))
                    ELSE <<>>]
            extraPart ==
                [j \in 1..Len(d.v) |->
                    IF d.v[j][1] \in names THEN <<>> ELSE Expansion(d.v[j][2])]
        IN  h_out.command = ProgramTokens(HTool) \o Flatten(schemaPart) \o Flatten(extraPart)

C5_Witness ==
    /\ Invoked
    /\ h_in.name = PStr(S_cat)
    /\ h_in.input = PDict(<< <<S_cc, PList(<<PStr(<<"a">>), PStr(<<"b">>)>>)>>,
                             <<S_verbose, PStr(<<"1">>)>>,
                             <<S_path, PStr(<<"1">>)>> >>)
    /\ h_out.command = << <<"p", "y", "t", "h", "o", "n">>, <<"c", ".", "p", "y">>, <<"-", "p">>, <<"1">>,
                          <<"-", "v">>, <<"1">>, <<"a">>, <<"b">> >>

\* every character of s is whitespace
Blank(s) == \A i \in 1..Len(s) : IsSpace(s[i])

\* t is s without its leading and trailing whitespace
IsTrimOf(t, s) ==
    \E i, j \in 0..Len(s) :
        /\ i + j <= Len(s)
        /\ \A k \in 1..i : IsSpace(s[k])
        /\ \A k \in (Len(s) - j + 1)..Len(s) : IsSpace(s[k])
        /\ t = SubSeq(s, i + 1, Len(s) - j)
        /\ t # <<>> => ~IsSpace(t[1]) /\ ~IsSpace(t[Len(t)])

\* C7 as amended: a blank action_input normalizes to the empty dict, so the
\* check of the required arguments applies: a tool with a required argument
\* answers with the missing-arguments message and starts no process, a tool
\* without one is started with no token after the program (unless the
\* program cannot be started).
C7_BlankInputIsEmptyDict ==
    (Executed /\ IsStr(h_in.input) /\ Blank(h_in.input.v) /\ IsRegistered(registry, h_in.name)) =>
        LET required == { i \in 1..Len(HTool.arguments) :
                            HTool.arguments[i].required = PBool(TRUE) }
        IN  IF required # {}
            THEN /\ ~h_out.raised
                 /\ ~h_out.started
                 /\ h_out.result = MissingMessage(HTool, required)
            ELSE /\ h_out.started = (h_in.completed.error # "OSError")
                 /\ h_out.started => h_out.command = ProgramTokens(HTool)
                 /\ h_out.raised = (h_in.completed.error # "none")

\* C7 as claimed: a blank action_input skips the check of the required
\* arguments and starts the process of any registered tool with no token
\* after the program.  Read for a program that can be started.
C7_BlankInputSkipsCheck ==
    (/\ Executed /\ IsStr(h_in.input) /\ Blank(h_in.input.v)
     /\ IsRegistered(registry, h_in.name)
     /\ h_in.completed.error # "OSError") =>
        /\ h_out.started
        /\ h_out.command = ProgramTokens(HTool)

C7_Witness ==
    /\ Executed
    /\ h_in.name = PStr(S_mail)
    /\ h_in.input = PStr(<<" ", "\n">>)
    /\ ~h_out.started
    /\ h_out.result = <<"M", "i", "s", "s", "i", "n", "g", " ", "r", "e", "q", "u", "i", "r", "e", "d", " ", "a", "r", "g", "u", "m", "e", "n", "t", "s", ":", " ", "t", "o", ",", " ", "c", "c">>

\* C9: once the process ran and subprocess.run returned its exit status
\* and its captured output, the result is the trimmed standard error when
\* the exit status is not zero and the trimmed standard output when it is
\* zero; an empty capture gives the empty string and nothing is raised.
\* There is no capture, and an exception instead of a result, only when
\* the output of the process cannot be decoded as text.
C9_ResultSelection ==
    (Invoked /\ h_out.started) =>
        IF h_in.completed.error = "UnicodeDecodeError"
        THEN h_out.raised
        ELSE /\ ~h_out.raised
             /\ h_in.completed.returncode # 0 =>
                   IsTrimOf(h_out.result, h_in.completed.stderr)
             /\ h_in.completed.returncode = 0 =>
                   IsTrimOf(h_out.result, h_in.completed.stdout)

C9_Witness ==
    /\ Invoked
    /\ h_out.started
    /\ ~h_out.raised
    /\ h_in.completed.returncode = 1
    /\ h_in.completed.stdout = <<"p">>
    /\ h_out.result = <<"e", " ", "f">>

(***************************************************************************)
(* _normalize_action_input applied to drawn inputs, once and again         *)
(***************************************************************************)
MaxTextLen == 3

TextAlphabet == {" ", "\"", "a", "1", "[", "]", "{", "}"}

\* the texts of at most MaxTextLen characters
ShortTexts == UNION {[1..k -> TextAlphabet] : k \in 0..MaxTextLen}

NormalizeInputs ==
    {PStr(s) : s \in ShortTexts \cup RawTexts}
    \cup OtherInputs
    \cup { PDict(<<>>), PDict(<< <<S_path, PStr(<<" ", "f">>)>> >>),
           PList(<<PStr(<<"[", "]">>)>>) }

InitNormalize ==
    /\ IdleAgent(SampleConfig)
    /\ h_pc = "input"
    /\ h_in \in NormalizeInputs
    /\ h_out = <<>>

\* normalize(x)
NormalizeStep ==
    /\ h_pc = "input"
    /\ h_pc' = "normalized"
    /\ h_out' = <<normalize_action_input(h_in)>>
    /\ UNCHANGED <<h_in, agentVars>>

\* normalize(normalize(x))
NormalizeAgainStep ==
    /\ h_pc = "normalized"
    /\ h_pc' = "normalized again"
    /\ h_out' = Append(h_out, normalize_action_input(h_out[1]))
    /\ UNCHANGED <<h_in, agentVars>>

NextNormalize == NormalizeStep \/ NormalizeAgainStep

SpecNormalize == InitNormalize /\ [][NextNormalize]_vars

\* the text is a JSON string literal: quotes around characters that hold
\* no quote and no line feed
IsStringLiteral(s) ==
    /\ Len(s) >= 2
    /\ s[1] = "\"" /\ s[Len(s)] = "\""
    /\ \A i \in 2..(Len(s) - 1) : s[i] # "\"" /\ s[i] # "\n"

\* a string whose trimmed text parses to a string value
ParsesToString(x) ==
    x.t = "str" /\ \E t \in {SubSeq(x.v, i, j) : i, j \in 1..Len(x.v)} :
                      IsTrimOf(t, x.v) /\ IsStringLiteral(t)

\* C6 as amended: normalize(normalize(x)) = normalize(x) for every dict,
\* every list and every string whose trimmed text does not parse to a
\* string value, and a dict or list is returned unchanged.  For a string
\* whose trimmed text parses to a string value s, normalize(x) = s and the
\* equation holds exactly when s is not blank, has no whitespace around it
\* and is not JSON itself.
C6_IdempotentUnlessStringLiteral ==
    /\ (h_pc # "input" /\ h_in.t \in {"obj", "arr"}) => h_out[1] = h_in
    /\ (h_pc = "normalized again" /\ ~ParsesToString(h_in)) => h_out[2] = h_out[1]
    /\ (h_pc = "normalized again" /\ ParsesToString(h_in)) =>
          /\ h_out[1].t = "str"
          /\ h_out[2] = h_out[1] <=>
                /\ h_out[1].v # <<>>
                /\ IsTrimOf(h_out[1].v, h_out[1].v)
                /\ ~JsonLoads(h_out[1].v).ok

\* C6 as claimed: normalize(normalize(x)) = normalize(x) for every input
C6_Idempotent ==
    h_pc = "normalized again" => h_out[2] = h_out[1]

C6_Witness ==
    /\ h_pc = "normalized again"
    /\ h_in = PStr(<<" ", "{", "\"", "v", "e", "r", "b", "o", "s", "e", "\"", ":", "\"", "1", "\"", ",", "\"", "p", "a", "t", "h", "\"", ":", "\"", "/", "t", "m", "p", "/", "f", "\"", "}", "\n">>)
    /\ h_out[1] = PDict(<< <<S_verbose, PStr(<<"1">>)>>,
                           <<S_path, PStr(<<"/", "t", "m", "p", "/", "f">>)>> >>)
    /\ h_out[2] = h_out[1]

(***************************************************************************)
(* load_tools applied to drawn configurations                              *)
(***************************************************************************)
MaxRecords == 3

\* records of a configuration source: with and without arguments, with
\* and without the optional keys of an argument, names that collide, and a
\* record that lacks script_path
RecordPool ==
    { PDict(<< <<K_name, PStr(<<"a">>)>>, <<K_description, PStr(<<"d">>)>>,
               <<K_script_path, PStr(<<"p">>)>> >>),
      PDict(<< <<K_name, PStr(<<"a">>)>>, <<K_description, PStr(<<>>)>>,
               <<K_script_path, PStr(<<"q">>)>>,
               <<K_arguments, PList(<< PDict(<< <<K_name, PStr(<<"x">>)>> >>) >>)>> >>),
      PDict(<< <<K_name, PStr(<<"b">>)>>, <<K_description, PStr(<<"d">>)>>,
               <<K_script_path, PStr(<<"p">>)>>,
               <<K_arguments,
                 PList(<< PDict(<< <<K_name, PStr(<<"x">>)>>,
                                   <<K_option, PStr(<<"-", "x">>)>>,
                                   <<K_description, PStr(<<"d">>)>>,
                                   <<K_required, PBool(TRUE)>> >>),
                          PDict(<< <<K_name, PStr(<<"y">>)>>,
                                   <<K_option, PNone>> >>) >>)>> >>),
      PDict(<< <<K_script_path, PStr(<<"r">>)>>, <<K_name, PStr(<<"c">>)>>,
               <<K_arguments, PList(<<>>)>>, <<K_description, PStr(<<"d">>)>> >>),
      PDict(<< <<K_name, PStr(<<"b">>)>>, <<K_description, PStr(<<"d">>)>> >>),
      PDict(<< <<K_name, PStr(<<"c">>)>>, <<K_description, PStr(<<"d">>)>>,
               <<K_script_path, PStr(<<"r">>)>>, <<K_arguments, PNone>> >>),
      PDict(<< <<K_name, PStr(<<"c">>)>>, <<K_description, PStr(<<"d">>)>>,
               <<K_script_path, PStr(<<"r">>)>>,
               <<K_arguments, PList(<<PList(<<>>)>>)>> >>),
      PDict(<< <<K_name, PList(<<PStr(<<"c">>)>>)>>, <<K_description, PStr(<<"d">>)>>,
               <<K_script_path, PStr(<<"r">>)>> >>) }

LoadConfigs == UNION {[1..k -> RecordPool] : k \in 0..MaxRecords}

\* after ToolRegistry.__init__ on one of the configurations
InitLoad ==
    /\ config \in LoadConfigs
    /\ registry = <<>>
    /\ max_turns = DefaultMaxTurns
    /\ pc = "new"
    /\ runs = 0
    /\ InitRunVars
    /\ h_pc = "input"
    /\ h_in = <<>>
    /\ h_out = <<>>

\* load_tools, as ReactAgent.__init__ calls it; h_out says whether it raised
LoadStep ==
    /\ h_pc = "input"
    /\ h_pc' = "load_tools"
    /\ LET r == load_tools(registry, config)
       IN  registry' = r.tools /\ h_out' = r.raised
    /\ UNCHANGED <<config, max_turns, pc, runs, runVars, h_in>>

\* load_tools again on the same source, as a second ReactAgent on the
\* registry calls it
ReloadStep ==
    /\ h_pc = "load_tools"
    /\ h_pc' = "load_tools again"
    /\ LET r == load_tools(registry, config)
       IN  registry' = r.tools /\ h_out' = r.raised
    /\ UNCHANGED <<config, max_turns, pc, runs, runVars, h_in>>

NextLoad == LoadStep \/ ReloadStep

SpecLoad == InitLoad /\ [][NextLoad]_vars

\* the value of a record's key, or the default when the record lacks it
FieldOr(record, key, default) ==
    IF \E i \in 1..Len(record.v) : record.v[i][1] = key
    THEN record.v[CHOOSE i \in 1..Len(record.v) : record.v[i][1] = key][2]
    ELSE default

\* the Tool mirrors the record, with the defaults of the absent keys
Mirrors(tool, record) ==
    LET arguments == FieldOr(record, K_arguments, PList(<<>>)).v
    IN  /\ tool.name = FieldOr(record, K_name, PNone)
        /\ tool.description = FieldOr(record, K_description, PNone)
        /\ tool.script_path = FieldOr(record, K_script_path, PNone)
        /\ Len(tool.arguments) = Len(arguments)
        /\ \A i \in 1..Len(arguments) :
              /\ tool.arguments[i].name = FieldOr(arguments[i], K_name, PNone)
              /\ tool.arguments[i].option = FieldOr(arguments[i], K_option, PNone)
              /\ tool.arguments[i].description
                    = FieldOr(arguments[i], K_description, PStr(<<>>))
              /\ tool.arguments[i].required
                    = FieldOr(arguments[i], K_required, PBool(FALSE))

RecordName(record) == FieldOr(record, K_name, PNone)

\* C10: after load the registry maps each tool name of the configuration
\* to the Tool that mirrors the last record with that name, every field and
\* argument equal to the record's and the absent keys at their defaults; it
\* holds no other name, and for records with pairwise distinct names it has
\* as many entries as there are records.
C10_RegistryMirrorsConfig ==
    (h_pc # "input" /\ h_out = FALSE) =>
        /\ \A i \in 1..Len(config) :
              LET name == RecordName(config[i])
                  latest == CHOOSE j \in 1..Len(config) :
                                /\ RecordName(config[j]) = name
                                /\ \A k \in (j + 1)..Len(config) : RecordName(config[k]) # name
              IN  /\ Cardinality({e \in 1..Len(registry) : registry[e][1] = name}) = 1
                  /\ \A e \in 1..Len(registry) :
                        registry[e][1] = name => Mirrors(registry[e][2], config[latest])
        /\ \A e \in 1..Len(registry) :
              \E i \in 1..Len(config) : RecordName(config[i]) = registry[e][1]
        /\ (\A i, j \in 1..Len(config) : i # j => RecordName(config[i]) # RecordName(config[j]))
              => Len(registry) = Len(config)

C10_Witness ==
    /\ h_pc = "load_tools"
    /\ h_out = FALSE
    /\ Len(config) = 3
    /\ Len(registry) = 2
    /\ RecordName(config[1]) = PStr(<<"a">>)
    /\ RecordName(config[3]) = PStr(<<"a">>)
    /\ config[1] # config[3]
    /\ registry[1][1] = PStr(<<"a">>)
    /\ registry[1][2].script_path = PStr(<<"q">>)
    /\ registry[1][2].arguments[1].option = PNone
    /\ registry[1][2].arguments[1].required = PBool(FALSE)

(***************************************************************************)
(* Properties of the loop, checked under Spec                              *)
(***************************************************************************)
\* the turn in progress has its plan and not yet its tool result
PlanJustMade == plans = execs + 1

\* the last turn ran its tool
ActJustDone == plans > 0 /\ execs = plans

PlanAction == Get(plan, K_action, PStr(<<>>))

RegistryNames == {registry[i][1] : i \in 1..Len(registry)}

\* C1: with a planner that never answers is_final, run makes exactly
\* max_turns planning cycles and max_turns tool executions and returns the
\* fixed message with max_turns history entries; under any planner it never
\* makes more than max_turns planning cycles.  A run stops earlier only on
\* a final plan or on an exception: one raised for a plan that is no dict
\* or whose action is a list or dict, or one raised by subprocess.run for
\* the registered tool of the plan.
C1_TurnBudget ==
    /\ plans <= max_turns
    /\ pc = "planning" => plans = step /\ execs = step /\ Len(history) = step
    /\ pc = "acting" => plans = step + 1 /\ execs = step /\ Len(history) = step
    /\ (pc = "done" /\ ~IsDict(plan)) => max_turns = 0
    /\ (pc = "done" /\ ~Truthy(Get(plan, K_is_final, PNone))) =>
          /\ plans = max_turns
          /\ execs = max_turns
          /\ Len(history) = max_turns
          /\ result = PStr(FinalMessage)
    /\ pc = "raised" =>
          \/ ~IsDict(plan)
          \/ IsList(PlanAction) \/ IsDict(PlanAction)
          \/ last.raised /\ PlanAction \in RegistryNames

C1_Witness ==
    /\ pc = "done"
    /\ max_turns = 2
    /\ plans = 2
    /\ Len(history) = 2
    /\ result = PStr(FinalMessage)

\* the keys of a plan
PlanKeys == {K_thought, K_action, K_action_input, K_is_final, K_final_answer}

\* the text parses as an object with the keys of a plan
MatchesPlanShape(text) ==
    LET parsed == JsonLoads(text)
    IN  /\ parsed.ok
        /\ IsDict(parsed.val)
        /\ \A k \in PlanKeys : HasKey(parsed.val, k)

\* C2: a reply that does not parse as an object with the keys of a plan
\* yields a final plan with an empty action and the raw text as final
\* answer, and run returns that text in that cycle, with no tool executed
\* and no exception.
C2_DegradesOnUnparsable ==
    (PlanJustMade /\ ~MatchesPlanShape(content)) =>
        /\ pc = "done"
        /\ IsDict(plan)
        /\ Get(plan, K_is_final, PNone) = PBool(TRUE)
        /\ Get(plan, K_action, PNone) = PStr(<<>>)
        /\ Get(plan, K_final_answer, PNone) = PStr(content)
        /\ result = PStr(content)

\* C4: for an action name that is no key of the registry, execute_tool
\* returns "Unknown tool: <name>" without normalizing the input and without
\* calling the invoker or starting a process; the loop records it as the
\* observation, appends the history entry and continues.
C4_UnknownTool ==
    (ActJustDone /\ IsStr(PlanAction) /\ PlanAction \notin RegistryNames) =>
        /\ last.result = UnknownPrefix \o PlanAction.v
        /\ last.calls = <<>>
        /\ ~last.started
        /\ last.command = <<>>
        /\ ~last.raised
        /\ spawned <= execs - 1
        /\ observation = PStr(UnknownPrefix \o PlanAction.v)
        /\ Len(history) = execs
        /\ history[Len(history)] = HistoryEntry(plan, observation)
        /\ step = execs
        /\ \/ pc = "planning"
           \/ pc = "done" /\ step = max_turns /\ result = PStr(FinalMessage)

C4_Witness ==
    /\ ActJustDone
    /\ PlanAction = PStr(S_nope)
    /\ pc = "planning"
    /\ step < max_turns
    /\ observation = PStr(UnknownPrefix \o S_nope)

\* C8: a plan whose is_final is true makes run return its final_answer in
\* that cycle, with no tool executed and no history entry added, also when
\* the plan names an action; a plan whose is_final is false leads to the
\* tool execution and run does not return in that cycle.
C8_FinalPlanReturns ==
    /\ (PlanJustMade /\ IsDict(plan) /\ Get(plan, K_is_final, PNone) = PBool(TRUE)) =>
          /\ pc = "done"
          /\ result = Get(plan, K_final_answer, PNone)
          /\ Len(history) = plans - 1
          /\ step = plans - 1
          /\ history = seen.history
          /\ observation = seen.observation
    /\ (PlanJustMade /\ IsDict(plan) /\ Get(plan, K_is_final, PNone) = PBool(FALSE)) =>
          /\ pc = "acting"
          /\ result = PNone

C8_Witness ==
    /\ pc = "done"
    /\ plans = 2
    /\ Len(history) = 1
    /\ IsDict(plan)
    /\ Get(plan, K_is_final, PNone) = PBool(TRUE)
    /\ Get(plan, K_action, PNone) = PStr(S_math)
    /\ result = PStr(<<"5">>)

\* what the planner calls of a run have received so far
SeenByPlanner ==
    /\ plans = 0 => history = <<>> /\ observation = PNone
    /\ plans >= 1 => Len(seen.history) = plans - 1
    /\ plans = 1 => seen.history = <<>> /\ seen.observation = PNone
    /\ (plans > 1 /\ PlanJustMade) =>
          /\ ~last.raised
          /\ seen.history = history
          /\ seen.observation = PStr(last.result)
    /\ (plans >= 1 /\ ActJustDone /\ ~last.raised) =>
          /\ Len(history) = plans
          /\ seen.history = SubSeq(history, 1, plans - 1)
          /\ observation = PStr(last.result)

\* the last entry of h is the text of a dict of the four keys with the
\* values of the plan p, action_input as p has it, and the observation o
RecordsTurn(h, p, o) ==
    /\ h # <<>>
    /\ LET entry == JsonLoads(h[Len(h)])
       IN  /\ entry.ok
           /\ IsDict(entry.val)
           /\ KeysOf(entry.val) = {K_thought, K_action, K_action_input, K_observation}
           /\ Len(entry.val.v) = 4
           /\ Get(entry.val, K_thought, PNone) = Get(p, K_thought, PNone)
           /\ Get(entry.val, K_action, PNone) = Get(p, K_action, PStr(<<>>))
           /\ Get(entry.val, K_action_input, PNone) = Get(p, K_action_input, PStr(<<>>))
           /\ Get(entry.val, K_observation, PNone) = o

\* what one step of the loop does to history and observation
HistoryStep ==
    /\ runs' # runs => history' = <<>> /\ observation' = PNone
    /\ (runs' = runs /\ execs' = execs) =>
          history' = history /\ observation' = observation
    /\ (runs' = runs /\ execs' # execs) =>
          IF last'.raised
          THEN /\ history' = history
               /\ pc' = "raised"
               /\ \/ IsList(PlanAction) \/ IsDict(PlanAction)
                  \/ PlanAction \in RegistryNames
          ELSE /\ Len(history') = Len(history) + 1
               /\ SubSeq(history', 1, Len(history)) = history
               /\ RecordsTurn(history', plan, PStr(last'.result))
               /\ observation' = PStr(last'.result)
               /\ pc' = "planning"

\* C12: a run starts with an empty history and no observation; only an
\* ACTING step changes them, appending exactly one entry that records the
\* plan's thought, action and action_input as the planner gave them and the
\* step's result, and setting observation to that result, whatever kind of
\* text the result is; so the k-th planner call of a run gets k-1 entries
\* in execution order and the result of step k-1, and nothing on the first
\* call.  The ACTING steps that append nothing are those that raise and
\* end the run: for an action that is a list or dict, and for a registered
\* tool when subprocess.run raises.
C12_HistoryAppendOnly == [](SeenByPlanner) /\ [][HistoryStep]_vars

\* the second planner call of a second run got the one entry of that run
\* and a missing-argument text as observation
C12_Witness ==
    /\ runs = 2
    /\ plans = 2
    /\ PlanJustMade
    /\ Len(seen.history) = 1
    /\ seen.observation = PStr(last.result)
    /\ ~last.started
    /\ Len(last.result) > Len(MissingPrefix)
    /\ SubSeq(last.result, 1, Len(MissingPrefix)) = MissingPrefix

\* the text is an object or array literal
IsContainerLiteral(s) ==
    JsonLoads(Strip(s)).ok /\ JsonLoads(Strip(s)).val.t \in {"obj", "arr"}

\* C13: for a registered tool and a string action_input whose trimmed text
\* is not empty and is no object or array literal, free-form text and text
\* that parses to a scalar alike, execute_tool starts the process with
\* exactly one argument token after the program.  Read for a program that
\* can be started.
C13_ScalarTextOneToken ==
    (/\ Executed
     /\ IsRegistered(registry, h_in.name)
     /\ IsStr(h_in.input)
     /\ ~Blank(h_in.input.v)
     /\ ~IsContainerLiteral(h_in.input.v)
     /\ h_in.completed.error # "OSError") =>
        /\ h_out.started
        /\ Len(h_out.command) = Len(ProgramTokens(HTool)) + 1
        /\ SubSeq(h_out.command, 1, Len(ProgramTokens(HTool))) = ProgramTokens(HTool)

(***************************************************************************)
(* Two ReactAgent objects on one ToolRegistry: each __init__ calls         *)
(* load_tools, which reads the configuration source again and stores into  *)
(* the one dict that every agent holds                                     *)
(***************************************************************************)

\* the configuration source after an edit: mail_draft is defined anew and
\* cat is gone
EditedConfig ==
    <<MathRecord, ToolRecord(S_mail, <<"o", "l", "d", ".", "p", "y">>, <<>>)>>

SharedConfigs == RunConfigs \cup {EditedConfig}

\* the largest max_turns of the agents on a shared registry
MaxSharedTurns == 1

\* after ToolRegistry.__init__; h_pc counts the agents constructed and h_in
\* keeps the catalog as the first agent got it
InitShared ==
    /\ config \in SharedConfigs
    /\ registry = <<>>
    /\ max_turns \in 0..MaxSharedTurns
    /\ pc = "new"
    /\ runs = 0
    /\ InitRunVars
    /\ h_pc = "no agent"
    /\ h_in = <<>>
    /\ h_out = <<>>

\* ReactAgent.__init__ of the first agent
ConstructFirst ==
    /\ pc = "new"
    /\ h_pc = "no agent"
    /\ LET r == load_tools(registry, config)
       IN  /\ registry' = r.tools
           /\ h_in' = r.tools
           /\ pc' = IF r.raised THEN "failed" ELSE "idle"
    /\ h_pc' = "one agent"
    /\ UNCHANGED <<config, max_turns, runs, runVars, h_out>>

\* the file behind registry_path is written between two constructions
EditSource ==
    /\ h_pc = "one agent"
    /\ pc \in {"idle", "done", "raised"}
    /\ \E cfg \in SharedConfigs \ {config} : config' = cfg
    /\ UNCHANGED <<registry, max_turns, pc, runs, runVars, harnessVars>>

\* ReactAgent.__init__ of a second agent on the same ToolRegistry, between
\* two runs; h_out keeps what its load_tools call returned
ConstructSecond ==
    /\ h_pc = "one agent"
    /\ pc \in {"idle", "done", "raised"}
    /\ LET r == load_tools(registry, config)
       IN  /\ registry' = r.tools
           /\ h_out' = <<r.tools>>
    /\ h_pc' = "two agents"
    /\ UNCHANGED <<config, max_turns, pc, runs, runVars, h_in>>

\* run, plan_action and execute_tool of either agent: both hold the same
\* dict, so a turn of one is a turn of the other
NextShared ==
    \/ ConstructFirst
    \/ EditSource
    \/ ConstructSecond
    \/ Start
    \/ \E reply \in Replies : Plan(reply)
    \/ \E completed \in Completions : Act(completed)
    \/ Exhaust

SpecShared == InitShared /\ [][NextShared]_vars

\* the names of a catalog with the Tool each maps to
Catalog(tools) == {tools[i] : i \in 1..Len(tools)}

\* C11: once the first agent is constructed, the catalog it got (the names
\* and the Tool of each) stays as it was, whatever is constructed or run
\* on the registry afterwards.
C11_RegistryReadOnly ==
    h_pc # "no agent" => Catalog(registry) = Catalog(h_in)

=============================================================================
